---- MODULE Spec2Model ----
(***************************************************************************)
(* The request pipeline of casdoorsdk/base.go: DoGetBytesRaw,              *)
(* DoGetResponse, DoGetBytes, DoPostBytesRaw, DoPost and the modify        *)
(* helpers (modifyUserById, modifyPermission, modifyRole).                 *)
(*                                                                         *)
(* A call is a goroutine walking through the statements of its function.   *)
(* The statements that touch memory shared with the caller or with other   *)
(* goroutines (the entity behind the pointer argument, authConfig, client) *)
(* are steps of their own; the transport and the remote service are the    *)
(* environment, which answers every request with any of its outcomes.      *)
(*                                                                         *)
(* Text is modelled as a sequence of one-character strings where its       *)
(* characters matter (msg, error messages, ids), JSON text as its syntax   *)
(* tree, and a decoded Go value as a separate shape, so that decoding and  *)
(* encoding are functions that can lose information.                       *)
(***************************************************************************)
EXTENDS Integers, Sequences, FiniteSets, TLC

\* Longest envelope msg drawn for a response.
MaxMsgLen == 2
\* Longest columns list passed to a modify helper.
MaxCols == 1
\* Wire integers 2^53 + k are drawn for k in 0..MaxOff.
MaxOff == 3

VARIABLES
    authConfig,   \* the process-wide configuration read at base.go:92,173,210,235,260
    client,       \* the shared transport, base.go:29
    heap,         \* the caller's entities, reached through the pointer arguments
    call          \* per goroutine: the call it is in, its locals and its result

vars == <<authConfig, client, heap, call>>

Threads == {"g1", "g2"}

SeqUpTo(S, n) == UNION {[1..k -> S] : k \in 0..n}

-----------------------------------------------------------------------------
(* JSON text, as a syntax tree.  A number is the integer off, or 2^53 + off *)
(* when big: the integers around 2^53 are where float64 stops being exact. *)
(* An element of an array or object is a scalar with its key.              *)

JNull == [t |-> "null", s |-> "", big |-> FALSE, off |-> 0, elems |-> <<>>]
JInvalid == [t |-> "invalid", s |-> "", big |-> FALSE, off |-> 0, elems |-> <<>>]
JStr(x) == [t |-> "str", s |-> x, big |-> FALSE, off |-> 0, elems |-> <<>>]
JNum(b, k) == [t |-> "num", s |-> "", big |-> b, off |-> k, elems |-> <<>>]
JArr(es) == [t |-> "arr", s |-> "", big |-> FALSE, off |-> 0, elems |-> es]
JObj(es) == [t |-> "obj", s |-> "", big |-> FALSE, off |-> 0, elems |-> es]
EStr(key, x) == [k |-> key, t |-> "str", s |-> x, big |-> FALSE, off |-> 0]
ENum(key, b, n) == [k |-> key, t |-> "num", s |-> "", big |-> b, off |-> n]

\* The value a JSON text denotes: numbers exact, object members unordered.
JSONValue(j) ==
    [t |-> j.t, s |-> j.s, big |-> j.big, off |-> j.off,
     items |-> IF j.t = "arr" THEN j.elems ELSE <<>>,
     members |-> IF j.t = "obj" THEN {j.elems[i] : i \in DOMAIN j.elems} ELSE {}]

-----------------------------------------------------------------------------
(* encoding/json as base.go uses it.                                       *)

\* The float64 nearest to 2^53 + off (ties to the even mantissa): between
\* 2^53 and 2^54 only the even integers are float64 values.
RoundToEven(off) ==
    IF off % 2 = 0 THEN off
    ELSE IF (off \div 2) % 2 = 0 THEN 2 * (off \div 2) ELSE 2 * (off \div 2) + 2

\* json.Unmarshal of a number into an interface{}: a float64.
Float64(big, off) == IF big THEN RoundToEven(off) ELSE off

GoElem(e) ==
    [t |-> CASE e.t = "str" -> "string" [] e.t = "num" -> "float64" [] OTHER -> "nil",
     s |-> e.s, big |-> e.big,
     off |-> IF e.t = "num" THEN Float64(e.big, e.off) ELSE e.off]

\* json.Unmarshal into the interface{} fields Data and Data2 (base.go:46-47,58,148).
UnmarshalAny(j) ==
    [t |-> CASE j.t = "null" -> "nil"
             [] j.t = "str" -> "string"
             [] j.t = "num" -> "float64"
             [] j.t = "arr" -> "[]interface{}"
             [] j.t = "obj" -> "map[string]interface{}",
     s |-> j.s, big |-> j.big,
     off |-> IF j.t = "num" THEN Float64(j.big, j.off) ELSE j.off,
     items |-> IF j.t = "arr" THEN [i \in DOMAIN j.elems |-> GoElem(j.elems[i])] ELSE <<>>,
     m |-> IF j.t = "obj"
           THEN [key \in {j.elems[i].k : i \in DOMAIN j.elems} |->
                   LET last == CHOOSE i \in DOMAIN j.elems :
                                 /\ j.elems[i].k = key
                                 /\ \A i2 \in DOMAIN j.elems : j.elems[i2].k = key => i2 <= i
                   IN GoElem(j.elems[last])]
           ELSE <<>>]

GoNil == UnmarshalAny(JNull)

\* The order json.Marshal writes map keys in (sorted).
KeyOrder == <<"a", "b">>

JElem(key, g) ==
    [k |-> key,
     t |-> CASE g.t = "string" -> "str" [] g.t = "float64" -> "num" [] OTHER -> "null",
     s |-> g.s, big |-> g.big, off |-> g.off]

RECURSIVE MarshalMap(_, _)
MarshalMap(m, keys) ==
    IF keys = <<>> THEN <<>>
    ELSE (IF Head(keys) \in DOMAIN m THEN <<JElem(Head(keys), m[Head(keys)])>> ELSE <<>>)
         \o MarshalMap(m, Tail(keys))

\* json.Marshal(response.Data), base.go:77.
MarshalAny(g) ==
    CASE g.t = "nil" -> JNull
      [] g.t = "string" -> JStr(g.s)
      [] g.t = "float64" -> JNum(g.big, g.off)
      [] g.t = "[]interface{}" -> JArr([i \in DOMAIN g.items |-> JElem("", g.items[i])])
      [] g.t = "map[string]interface{}" -> JObj(MarshalMap(g.m, KeyOrder))

-----------------------------------------------------------------------------
(* fmt.Errorf(response.Msg), base.go:64 and base.go:154: msg is the FORMAT *)
(* and there are no operands.  fmt copies plain characters, writes "%" for *)
(* "%%", "%!(NOVERB)" for a "%" that ends the format, and "%!c(MISSING)"   *)
(* for "%" followed by any other verb c.  Chars holds no flag, width or    *)
(* precision character, so the verb is the character right after "%".      *)

Chars == {"n", "%"}

NoVerb == <<"%", "!", "(", "N", "O", "V", "E", "R", "B", ")">>
Missing(c) == <<"%", "!", c, "(", "M", "I", "S", "S", "I", "N", "G", ")">>

RECURSIVE Errorf(_)
Errorf(format) ==
    IF format = <<>> THEN <<>>
    ELSE IF Head(format) # "%" THEN <<Head(format)>> \o Errorf(Tail(format))
    ELSE IF Tail(format) = <<>> THEN NoVerb
    ELSE IF format[2] = "%" THEN <<"%">> \o Errorf(Tail(Tail(format)))
    ELSE Missing(format[2]) \o Errorf(Tail(Tail(format)))

\* An error value: the stage that produced it and, for the remote error, its
\* message.  The message of the other kinds is the library's or the
\* transport's own text, which no claim reads.
NilErr == [kind |-> "nil", msg |-> <<>>]
Err(kind, msg) == [kind |-> kind, msg |-> msg]

-----------------------------------------------------------------------------
(* The response envelope, base.go:43-48.                                   *)

ZeroResponse == [Status |-> "", Msg |-> <<>>, Data |-> GoNil, Data2 |-> GoNil]

\* A response body as the transport delivers it: not JSON at all, a JSON
\* array, the JSON text null, or a JSON object with the envelope's fields.
WireNone == [t |-> "none"]
WireInvalid == [t |-> "invalid"]
WireArray == [t |-> "array"]
WireNull == [t |-> "null"]
Envelope(st, msg, d, d2) ==
    [t |-> "object", status |-> st, msg |-> msg, data |-> d, data2 |-> d2]

\* json.Unmarshal(respBytes, &response), base.go:58 and base.go:148.  The text
\* null decodes without error and leaves the zero Response.
UnmarshalResponse(w) ==
    [ok |-> w.t \in {"object", "null"},
     response |-> IF w.t = "object"
                  THEN [Status |-> w.status, Msg |-> w.msg,
                        Data |-> UnmarshalAny(w.data), Data2 |-> UnmarshalAny(w.data2)]
                  ELSE ZeroResponse]

NilResp == [nil |-> TRUE]
Ptr(r) == [nil |-> FALSE, v |-> r]
NilBytes == [nil |-> TRUE]
Bytes(b) == [nil |-> FALSE, v |-> b]

\* What a function hands back: *Response, []byte of DoGetBytes, []byte of the
\* Raw functions, the affected flag of the modify helpers, the error.
Ret(resp, bytes, raw, affected, err) ==
    [resp |-> resp, bytes |-> bytes, raw |-> raw, affected |-> affected, err |-> err]
NoRet == Ret(NilResp, NilBytes, NilBytes, FALSE, NilErr)
Fail(err) == Ret(NilResp, NilBytes, NilBytes, FALSE, err)

\* A slip of the decoder: the status check is left out.
DecodeResponseUnchecked(w) ==
    LET u == UnmarshalResponse(w) IN
    IF ~u.ok THEN Fail(Err("decode", <<>>))
    ELSE Ret(Ptr(u.response), NilBytes, NilBytes, FALSE, NilErr)

\* base.go:57-67 (DoGetResponse) and base.go:147-157 (DoPost): decode, then
\* the status check.
DecodeResponse(w) ==
    LET u == UnmarshalResponse(w) IN
    IF ~u.ok THEN Fail(Err("decode", <<>>))
    ELSE IF u.response.Status # "ok" THEN Fail(Err("remote", Errorf(u.response.Msg)))
    ELSE Ret(Ptr(u.response), NilBytes, NilBytes, FALSE, NilErr)

\* base.go:72-82: DoGetBytes after DoGetResponse has returned.  json.Marshal
\* of a value json.Unmarshal produced does not fail.
DoGetBytesReturn(r) ==
    IF r.err # NilErr THEN Fail(r.err)
    ELSE Ret(NilResp, Bytes(MarshalAny(r.resp.v.Data)), NilBytes, FALSE, NilErr)

\* A slip of the comparison: any string counts as "Affected".
IsAffectedAnyString(g) == g.t = "string"

\* resp.Data == "Affected", base.go:221,246,271: an interface{} equals a string
\* constant when it holds a string of that value.
IsAffected(g) == g.t = "string" /\ g.s = "Affected"

\* base.go:216-221, 241-246, 266-271: a modify helper after DoPost has returned.
ModifyReturn(r) ==
    IF r.err # NilErr THEN Fail(r.err)
    ELSE Ret(r.resp, NilBytes, NilBytes, IsAffected(r.resp.v.Data), NilErr)

-----------------------------------------------------------------------------
(* The request body of DoPost, base.go:116-140.                            *)

NoBody == [enc |-> "none"]
RawBody(b) == [enc |-> "raw", bytes |-> b]

\* createFormFile(files): a multipart form with one file part per entry.
createFormFile(files) ==
    [contentType |-> "multipart/form-data",
     body |-> [enc |-> "multipart",
               parts |-> {[name |-> f, content |-> files[f]] : f \in DOMAIN files}]]

\* createForm(params): the map, form-urlencoded.
createForm(params) ==
    [contentType |-> "application/x-www-form-urlencoded",
     body |-> [enc |-> "urlencoded", form |-> params]]

\* json.Unmarshal(postBytes, &params) with params a map[string]string,
\* base.go:126-130: an object whose values are strings (or null, which leaves
\* the empty string), or the text null (which leaves the nil map).
UnmarshalParams(b) ==
    [ok |-> \/ b.t = "null"
            \/ /\ b.t = "obj"
               /\ \A i \in DOMAIN b.elems : b.elems[i].t \in {"str", "null"},
     params |-> IF b.t = "obj"
                THEN [key \in {b.elems[i].k : i \in DOMAIN b.elems} |->
                        LET last == CHOOSE i \in DOMAIN b.elems :
                                      /\ b.elems[i].k = key
                                      /\ \A i2 \in DOMAIN b.elems :
                                            b.elems[i2].k = key => i2 <= i
                        IN b.elems[last].s]
                ELSE <<>>]

TextPlain == "text/plain;charset=UTF-8"

Encoded(err, contentType, body) == [err |-> err, contentType |-> contentType, body |-> body]

\* A slip of the selection: isFile alone selects the multipart form.
DoPostEncodeByFile(postBytes, isForm, isFile) ==
    IF isFile
    THEN LET f == createFormFile([n \in {"file"} |-> postBytes])
         IN Encoded(NilErr, f.contentType, f.body)
    ELSE IF isForm
    THEN LET u == UnmarshalParams(postBytes) IN
         IF ~u.ok THEN Encoded(Err("params", <<>>), "", NoBody)
         ELSE LET f == createForm(u.params)
              IN Encoded(NilErr, f.contentType, f.body)
    ELSE Encoded(NilErr, TextPlain, RawBody(postBytes))

\* base.go:116-140.
DoPostEncode(postBytes, isForm, isFile) ==
    IF isForm
    THEN IF isFile
         THEN LET f == createFormFile([n \in {"file"} |-> postBytes])
              IN Encoded(NilErr, f.contentType, f.body)
         ELSE LET u == UnmarshalParams(postBytes) IN
              IF ~u.ok THEN Encoded(Err("params", <<>>), "", NoBody)
              ELSE LET f == createForm(u.params)
                   IN Encoded(NilErr, f.contentType, f.body)
    ELSE Encoded(NilErr, TextPlain, RawBody(postBytes))

-----------------------------------------------------------------------------
(* Requests, base.go:87-92 and base.go:162-174.                            *)

\* req.SetBasicAuth(username, password)
SetBasicAuth(username, password) == [set |-> TRUE, user |-> username, pass |-> password]
NoAuth == [set |-> FALSE, user |-> "", pass |-> ""]

NoReq == [sent |-> FALSE]

\* base.go:87-94: the GET request DoGetBytesRaw hands to client.Do.
GetRequest(url) ==
    [sent |-> TRUE, method |-> "GET", url |-> url,
     auth |-> SetBasicAuth(authConfig.ClientId, authConfig.ClientSecret),
     contentType |-> "", body |-> NoBody, via |-> client]

\* A slip of the POST path: the request is not signed.
PostRequestUnsigned(url, contentType, body) ==
    [sent |-> TRUE, method |-> "POST", url |-> url, auth |-> NoAuth,
     contentType |-> IF contentType = "" THEN TextPlain ELSE contentType,
     body |-> body, via |-> client]

\* base.go:162-176: the POST request DoPostBytesRaw hands to client.Do.
PostRequest(url, contentType, body) ==
    [sent |-> TRUE, method |-> "POST", url |-> url,
     auth |-> SetBasicAuth(authConfig.ClientId, authConfig.ClientSecret),
     contentType |-> IF contentType = "" THEN TextPlain ELSE contentType,
     body |-> body, via |-> client]

-----------------------------------------------------------------------------
(* The caller's entities and the inputs of the calls.                      *)

\* A User, Permission or Role: Owner, Name and one further field.
Entity(owner, name, display) == [Owner |-> owner, Name |-> name, DisplayName |-> display]

Kinds == {"user", "permission", "role"}
Owners == {"org1", "built-in"}
NameOf(kind) ==
    CASE kind = "user" -> "alice" [] kind = "permission" -> "perm1" [] kind = "role" -> "editor"

\* json.Marshal(user), json.Marshal(permission), json.Marshal(role):
\* base.go:211, 236, 261.  Every field is written, Owner among them.
MarshalEntity(e) ==
    JObj(<<EStr("owner", e.Owner), EStr("name", e.Name), EStr("displayName", e.DisplayName)>>)

Configs ==
    {[ClientId |-> "id1", ClientSecret |-> "secret1", OrganizationName |-> "org1"],
     [ClientId |-> "id2", ClientSecret |-> "secret2", OrganizationName |-> "org2"]}

Clients == {"http.Client", "custom"}

\* strings.Join(columns, ","), base.go:207.
RECURSIVE Join(_)
Join(columns) ==
    IF columns = <<>> THEN <<>>
    ELSE IF Len(columns) = 1 THEN <<columns[1]>>
    ELSE <<columns[1], ",">> \o Join(Tail(columns))

\* queryMap: "id" always, "columns" only for a non-empty list;
\* base.go:202-208, 227-233, 252-258.
QueryMap(id, columns) ==
    [id |-> id, hasColumns |-> Len(columns) # 0,
     columns |-> IF Len(columns) # 0 THEN Join(columns) ELSE <<>>]

\* fmt.Sprintf("%s/%s", owner, name), base.go:228 and base.go:253.
Sprintf(owner, name) == <<owner, "/", name>>

\* GetUrl(action, queryMap): the endpoint, the action and the query.
GetUrl(action, queryMap) == [action |-> action, query |-> queryMap]

ColumnLists == SeqUpTo({"name"}, MaxCols)
UserIds == {<<"built-in", "/", "alice">>, <<"id-1">>}
GetUrls == {GetUrl("get-user", QueryMap(<<"org1", "/", "alice">>, <<>>)),
            GetUrl("get-roles", QueryMap(<<>>, <<>>))}
ActionsOf(kind) ==
    CASE kind = "user" -> {"add-user", "delete-user"}
      [] kind = "permission" -> {"add-permission", "delete-permission"}
      [] kind = "role" -> {"add-role", "delete-role"}

\* Bodies a caller posts: a flat string map, a map with a number in it, the
\* text null, and bytes that are no JSON.
PostBodies ==
    {JObj(<<EStr("a", "x"), EStr("b", "y")>>), JObj(<<ENum("a", FALSE, 1)>>), JNull, JInvalid}

\* The data values a response carries.
DataValues ==
    {JNull, JStr("Affected"), JStr("Other"), JNum(FALSE, 1),
     JArr(<<EStr("", "Affected")>>), JObj(<<ENum("b", FALSE, 2), EStr("a", "x")>>)}
    \cup {JNum(TRUE, k) : k \in 0..MaxOff}

Msgs == SeqUpTo(Chars, MaxMsgLen)

\* The response bodies the environment answers with.
Responses ==
    {WireInvalid, WireArray, WireNull}
    \cup {Envelope("ok", m, d, d2) : m \in {<<>>}, d \in DataValues,
                                      d2 \in {JNull, JStr("second")}}
    \cup {Envelope("error", m, d, JNull) : m \in Msgs, d \in {JNull, JStr("Affected")}}

\* The few responses the concurrent specification draws.
ConcResponses ==
    {Envelope("ok", <<>>, JStr("Affected"), JNull), Envelope("error", <<"n">>, JNull, JNull)}

-----------------------------------------------------------------------------
(* A goroutine's call.                                                     *)

NoQuery == QueryMap(<<>>, <<>>)
NoUrl == GetUrl("", NoQuery)
NoEntity == Entity("", "", "")

Idle ==
    [pc |-> "idle", op |-> "none", url |-> NoUrl, kind |-> "none", arg |-> NoEntity,
     action |-> "", query |-> NoQuery, postBytes |-> JNull,
     isForm |-> FALSE, isFile |-> FALSE, contentType |-> "", body |-> NoBody,
     req |-> NoReq, nDo |-> 0, wire |-> WireNone, ret |-> NoRet]

GetOps == {"DoGetBytesRaw", "DoGetResponse", "DoGetBytes"}
RawOps == {"DoGetBytesRaw", "DoPostBytesRaw"}
ModifyOps == {"modifyUserById", "modifyPermission", "modifyRole"}

Init ==
    /\ authConfig \in Configs
    /\ client = "http.Client"
    /\ heap \in {[k \in Kinds |-> Entity(f[k], NameOf(k), "shown")] : f \in [Kinds -> Owners]}
    /\ call = [g \in Threads |-> Idle]

-----------------------------------------------------------------------------
(* The calls, statement by statement.                                      *)

Start(g, c) ==
    /\ call[g].pc = "idle"
    /\ call' = [call EXCEPT ![g] = c]
    /\ UNCHANGED <<authConfig, client, heap>>

\* DoGetBytesRaw(url), DoGetResponse(url), DoGetBytes(url) are entered.
CallGet(g, op, url) ==
    Start(g, [Idle EXCEPT !.pc = "send", !.op = op, !.url = url])

\* DoPostBytesRaw(url, contentType, body) is entered.
CallDoPostBytesRaw(g, url, contentType, body) ==
    Start(g, [Idle EXCEPT !.pc = "send", !.op = "DoPostBytesRaw", !.url = url,
                          !.contentType = contentType, !.body = body])

\* DoPost(action, queryMap, postBytes, isForm, isFile) is entered; base.go:114.
CallDoPost(g, action, queryMap, postBytes, isForm, isFile) ==
    Start(g, [Idle EXCEPT !.pc = "encode", !.op = "DoPost", !.action = action,
                          !.query = queryMap, !.url = GetUrl(action, queryMap),
                          !.postBytes = postBytes, !.isForm = isForm, !.isFile = isFile])

\* A slip of the order: the id is built after Owner has been overwritten.
EntityIdAfterStamp(e) == Sprintf(authConfig.OrganizationName, e.Name)

\* The id of a permission or role, read from the entity as it is when the
\* helper starts: base.go:228 and base.go:253.
EntityId(e) == Sprintf(e.Owner, e.Name)

\* A modify helper is entered and builds its queryMap.  arg keeps the entity
\* as the caller passed it.
StartModify(g, op, kind, action, id, columns) ==
    Start(g, [Idle EXCEPT !.pc = "setOwner", !.op = op, !.kind = kind,
                          !.arg = heap[kind], !.action = action,
                          !.query = QueryMap(id, columns)])

\* base.go:201-208.
CallModifyUserById(g, action, id, columns) ==
    StartModify(g, "modifyUserById", "user", action, id, columns)

\* base.go:226-233.
CallModifyPermission(g, action, columns) ==
    StartModify(g, "modifyPermission", "permission", action,
                EntityId(heap["permission"]), columns)

\* base.go:251-258.
CallModifyRole(g, action, columns) ==
    StartModify(g, "modifyRole", "role", action, EntityId(heap["role"]), columns)

\* A slip of the helper: Owner is left as the caller set it.
StampNothing(e) == e

\* user.Owner = authConfig.OrganizationName: base.go:210, 235, 260.
StampOwner(e) == [e EXCEPT !.Owner = authConfig.OrganizationName]

\* The write through the caller's pointer.
SetOwner(g) ==
    /\ call[g].pc = "setOwner"
    /\ heap' = [heap EXCEPT ![call[g].kind] = StampOwner(@)]
    /\ call' = [call EXCEPT ![g].pc = "marshal"]
    /\ UNCHANGED <<authConfig, client>>

\* json.Marshal of the entity, then DoPost(action, queryMap, postBytes, false,
\* false) is entered: base.go:211-216, 236-241, 261-266.
Marshal(g) ==
    /\ call[g].pc = "marshal"
    /\ call' = [call EXCEPT ![g].pc = "encode",
                            ![g].postBytes = MarshalEntity(heap[call[g].kind]),
                            ![g].isForm = FALSE, ![g].isFile = FALSE,
                            ![g].url = GetUrl(call[g].action, call[g].query)]
    /\ UNCHANGED <<authConfig, client, heap>>

\* base.go:116-140: the body is encoded, or DoPost returns the decode error.
Encode(g) ==
    /\ call[g].pc = "encode"
    /\ LET e == DoPostEncode(call[g].postBytes, call[g].isForm, call[g].isFile) IN
       call' = IF e.err # NilErr
               THEN [call EXCEPT ![g].pc = "done", ![g].ret = Fail(e.err)]
               ELSE [call EXCEPT ![g].pc = "send", ![g].contentType = e.contentType,
                                 ![g].body = e.body]
    /\ UNCHANGED <<authConfig, client, heap>>

\* http.NewRequest fails (the url does not parse): base.go:87-90, 168-171.
NewRequestFails(g) ==
    /\ call[g].pc = "send"
    /\ call' = [call EXCEPT ![g].pc = "done", ![g].ret = Fail(Err("request", <<>>))]
    /\ UNCHANGED <<authConfig, client, heap>>

\* The request is built, signed and handed to client.Do: base.go:87-94, 162-176.
Send(g) ==
    /\ call[g].pc = "send"
    /\ call' = [call EXCEPT ![g].pc = "await",
                            ![g].req = IF call[g].op \in GetOps
                                       THEN GetRequest(call[g].url)
                                       ELSE PostRequest(call[g].url, call[g].contentType,
                                                        call[g].body),
                            ![g].nDo = @ + 1]
    /\ UNCHANGED <<authConfig, client, heap>>

\* A slip of the transport path: a failed Do sends the request again.
DoFailsRetry(g) ==
    /\ call[g].pc = "await"
    /\ call' = [call EXCEPT ![g].pc = "send", ![g].wire = [t |-> "doErr"]]
    /\ UNCHANGED <<authConfig, client, heap>>

\* client.Do returns an error: base.go:95-97, 177-179.
DoFails(g) ==
    /\ call[g].pc = "await"
    /\ call' = [call EXCEPT ![g].pc = "done", ![g].wire = [t |-> "doErr"],
                            ![g].ret = Fail(Err("transport", <<>>))]
    /\ UNCHANGED <<authConfig, client, heap>>

\* ioutil.ReadAll returns an error: base.go:105-108, 187-190.
ReadFails(g) ==
    /\ call[g].pc = "await"
    /\ call' = [call EXCEPT ![g].pc = "done", ![g].wire = [t |-> "readErr"],
                            ![g].ret = Fail(Err("read", <<>>))]
    /\ UNCHANGED <<authConfig, client, heap>>

\* What each function returns once the body w has been read.
Result(op, w) ==
    CASE op \in RawOps -> Ret(NilResp, NilBytes, Bytes(w), FALSE, NilErr)
      [] op \in {"DoGetResponse", "DoPost"} -> DecodeResponse(w)
      [] op = "DoGetBytes" -> DoGetBytesReturn(DecodeResponse(w))
      [] op \in ModifyOps -> ModifyReturn(DecodeResponse(w))

\* The body w is read and the call runs to its return.
Receive(g, w) ==
    /\ call[g].pc = "await"
    /\ call' = [call EXCEPT ![g].pc = "done", ![g].wire = w,
                            ![g].ret = Result(call[g].op, w)]
    /\ UNCHANGED <<authConfig, client, heap>>

\* The caller takes the result; the goroutine is free for its next call.
Return(g) ==
    /\ call[g].pc = "done"
    /\ call' = [call EXCEPT ![g] = Idle]
    /\ UNCHANGED <<authConfig, client, heap>>

\* base.go:33-35.
SetHttpClient(httpClient) ==
    /\ client' = httpClient
    /\ UNCHANGED <<authConfig, heap, call>>

-----------------------------------------------------------------------------
(* One caller goroutine, every function, every response.                   *)

Next ==
    \/ \E op \in GetOps, url \in GetUrls : CallGet("g1", op, url)
    \/ \E url \in GetUrls, ct \in {"", "application/json"} :
          CallDoPostBytesRaw("g1", url, ct, RawBody(JStr("payload")))
    \/ \E b \in PostBodies, isForm \in BOOLEAN, isFile \in BOOLEAN :
          CallDoPost("g1", "upload-resource", NoQuery, b, isForm, isFile)
    \/ \E a \in ActionsOf("user"), id \in UserIds, cols \in ColumnLists :
          CallModifyUserById("g1", a, id, cols)
    \/ \E a \in ActionsOf("permission"), cols \in ColumnLists :
          CallModifyPermission("g1", a, cols)
    \/ \E a \in ActionsOf("role"), cols \in ColumnLists : CallModifyRole("g1", a, cols)
    \/ SetOwner("g1")
    \/ Marshal("g1")
    \/ Encode("g1")
    \/ NewRequestFails("g1")
    \/ Send("g1")
    \/ DoFails("g1")
    \/ ReadFails("g1")
    \/ \E w \in Responses : Receive("g1", w)
    \/ Return("g1")
    \/ \E c \in Clients : SetHttpClient(c)

Spec == Init /\ [][Next]_vars

(* Two goroutines calling the modify helpers on the same entities.         *)

NextConc ==
    \E g \in Threads :
        \/ CallModifyUserById(g, "add-user", <<"id-1">>, <<>>)
        \/ CallModifyPermission(g, "add-permission", <<>>)
        \/ CallModifyRole(g, "add-role", <<>>)
        \/ SetOwner(g)
        \/ Marshal(g)
        \/ Encode(g)
        \/ Send(g)
        \/ DoFails(g)
        \/ \E w \in ConcResponses : Receive(g, w)
        \/ Return(g)

SpecConc == Init /\ [][NextConc]_vars

-----------------------------------------------------------------------------
(* The claims.                                                             *)

Done(g) == call[g].pc = "done"
Returned(g) == call[g].ret
NothingReturned(r) ==
    r.resp = NilResp /\ r.bytes = NilBytes /\ r.raw = NilBytes /\ ~r.affected
EnvelopeOps == {"DoGetResponse", "DoGetBytes", "DoPost"}

\* C1: for every response that decodes as an envelope with status # "ok",
\* DoGetResponse, DoGetBytes and DoPost return an error whose message is exactly
\* the envelope's msg, and neither a Response nor bytes.
C1_RemoteErrorIsMsg ==
    \A g \in Threads :
        (/\ Done(g)
         /\ call[g].op \in EnvelopeOps
         /\ call[g].wire.t = "object"
         /\ call[g].wire.status # "ok")
        => /\ Returned(g).err.kind = "remote"
           /\ Returned(g).err.msg = call[g].wire.msg
           /\ NothingReturned(Returned(g))

\* C2: a modify helper returns affected = TRUE exactly when it returns a nil
\* error and the envelope's data is the string "Affected"; with a non-nil
\* error the returned envelope is nil.
C2_AffectedIffData ==
    \A g \in Threads :
        (Done(g) /\ call[g].op \in ModifyOps)
        => /\ Returned(g).affected <=>
                (/\ Returned(g).err = NilErr
                 /\ call[g].wire.t = "object"
                 /\ call[g].wire.data = JStr("Affected"))
           /\ Returned(g).err # NilErr => Returned(g).resp = NilResp
           /\ Returned(g).err = NilErr => ~Returned(g).resp.nil

C2_Witness ==
    \E g \in Threads :
        /\ Done(g) /\ call[g].op \in ModifyOps
        /\ Returned(g).affected
        /\ Returned(g).err = NilErr

\* C3: the body a modify helper serializes and hands to DoPost has Owner equal
\* to authConfig.OrganizationName, whatever Owner the entity came with, and
\* the entity's other fields as the caller passed them.
C3_BodyOwnerIsOrganization ==
    \A g \in Threads :
        (call[g].op \in ModifyOps /\ call[g].pc \in {"encode", "send", "await", "done"})
        => /\ call[g].postBytes =
                JObj(<<EStr("owner", authConfig.OrganizationName),
                       EStr("name", call[g].arg.Name),
                       EStr("displayName", call[g].arg.DisplayName)>>)
           /\ call[g].req.sent => call[g].req.body = RawBody(call[g].postBytes)

C3_Witness ==
    \E g \in Threads :
        /\ call[g].op \in ModifyOps
        /\ call[g].req.sent
        /\ call[g].arg.Owner # authConfig.OrganizationName

\* C4: in modifyPermission and modifyRole the request's id is "o/n" for the
\* Owner o and Name n the entity was passed in with, also when o is not the
\* configured organization, while the body of the same request carries
\* Owner = the configured organization.
C4_IdUsesOriginalOwner ==
    \A g \in Threads :
        (call[g].op \in {"modifyPermission", "modifyRole"} /\ call[g].pc # "idle")
        => /\ call[g].query.id = <<call[g].arg.Owner, "/", call[g].arg.Name>>
           /\ call[g].req.sent =>
                /\ call[g].req.url.query.id = <<call[g].arg.Owner, "/", call[g].arg.Name>>
                /\ call[g].req.body.enc = "raw"
                /\ call[g].req.body.bytes.elems[1] =
                      EStr("owner", authConfig.OrganizationName)

C4_Witness ==
    \E g \in Threads :
        /\ call[g].op = "modifyRole"
        /\ call[g].req.sent
        /\ call[g].arg.Owner # authConfig.OrganizationName
        /\ call[g].req.url.query.id = <<"built-in", "/", "editor">>

\* Bytes that json.Unmarshal accepts for a map[string]string.
DecodesAsStringMap(b) ==
    \/ b.t = "null"
    \/ b.t = "obj" /\ \A i \in DOMAIN b.elems : b.elems[i].t \in {"str", "null"}

\* C5: DoPost picks the body encoding from (isForm, isFile): multipart with
\* the single part "file" holding the raw bytes; the decoded string map,
\* form-urlencoded; or the bytes verbatim as text/plain.  Bytes that do not
\* decode as a string map end the isForm && !isFile call with an error and
\* no request.
C5_BodyEncoding ==
    \A g \in Threads :
        (call[g].op = "DoPost" /\ call[g].pc \in {"send", "await", "done"})
        => LET c == call[g] IN
           /\ (c.isForm /\ c.isFile) =>
                /\ c.body.enc = "multipart"
                /\ c.body.parts = {[name |-> "file", content |-> c.postBytes]}
                /\ c.contentType = "multipart/form-data"
           /\ (c.isForm /\ ~c.isFile /\ DecodesAsStringMap(c.postBytes)) =>
                /\ c.body.enc = "urlencoded"
                /\ DOMAIN c.body.form = {c.postBytes.elems[i].k : i \in DOMAIN c.postBytes.elems}
                /\ \A i \in DOMAIN c.postBytes.elems :
                      c.body.form[c.postBytes.elems[i].k] = c.postBytes.elems[i].s
                /\ c.contentType = "application/x-www-form-urlencoded"
           /\ (c.isForm /\ ~c.isFile /\ ~DecodesAsStringMap(c.postBytes)) =>
                /\ c.pc = "done"
                /\ c.ret.err # NilErr
                /\ NothingReturned(c.ret)
                /\ c.nDo = 0
                /\ c.req = NoReq
           /\ ~c.isForm =>
                /\ c.body = RawBody(c.postBytes)
                /\ c.contentType = TextPlain
           /\ c.req.sent =>
                /\ c.req.body = c.body
                /\ c.req.contentType = c.contentType

C5_Witness ==
    \E g \in Threads :
        /\ call[g].op = "DoPost"
        /\ call[g].isForm /\ call[g].isFile
        /\ call[g].req.sent
        /\ call[g].req.body.enc = "multipart"

\* C6: every request handed to client.Do carries the basic-auth credentials
\* of the configuration, and Do is not invoked without such a request.
C6_RequestsAreSigned ==
    \A g \in Threads :
        /\ call[g].nDo > 0 <=> call[g].req.sent
        /\ call[g].req.sent =>
              call[g].req.auth = [set |-> TRUE, user |-> authConfig.ClientId,
                                  pass |-> authConfig.ClientSecret]

C6_Witness ==
    \E g \in Threads :
        /\ call[g].op \in ModifyOps
        /\ call[g].req.sent
        /\ call[g].req.auth.set
        /\ call[g].req.auth.user = "id2"

\* C7: for every envelope with status "ok", the bytes DoGetBytes returns
\* decode to the value of the data the envelope carried.
C7_DataRoundTrip ==
    \A g \in Threads :
        (/\ Done(g)
         /\ call[g].op = "DoGetBytes"
         /\ call[g].wire.t = "object"
         /\ call[g].wire.status = "ok")
        => /\ Returned(g).err = NilErr
           /\ ~Returned(g).bytes.nil
           /\ JSONValue(Returned(g).bytes.v) = JSONValue(call[g].wire.data)

\* C8: a call invokes client.Do at most once, and the first failure (request
\* construction, transport, body read, envelope decode, status # "ok") is what
\* it returns, with nothing else.
C8_OneAttemptFirstFailure ==
    \A g \in Threads :
        /\ call[g].nDo <= 1
        /\ Done(g) =>
             LET c == call[g] IN
             /\ (c.wire.t = "none") => (c.ret.err.kind \in {"request", "params"} /\ c.nDo = 0)
             /\ (c.wire.t = "doErr") => (c.ret.err.kind = "transport" /\ c.nDo = 1)
             /\ (c.wire.t = "readErr") => (c.ret.err.kind = "read" /\ c.nDo = 1)
             /\ (c.op \notin RawOps /\ c.wire.t \in {"invalid", "array"}) =>
                    c.ret.err.kind = "decode"
             /\ (c.op \notin RawOps /\ c.wire.t = "object" /\ c.wire.status # "ok") =>
                    c.ret.err.kind = "remote"
             /\ c.ret.err # NilErr => NothingReturned(c.ret)

C8_Witness ==
    \E g \in Threads :
        /\ Done(g)
        /\ call[g].wire.t = "doErr"
        /\ call[g].nDo = 1
        /\ Returned(g).err.kind = "transport"

\* C9 as claimed: of a decoded envelope, a success has data populated and a
\* failure has msg populated.
C9_DataOrMsgPopulated ==
    \A g \in Threads :
        (/\ Done(g)
         /\ call[g].op \in {"DoGetResponse", "DoPost"}
         /\ call[g].wire.t = "object")
        => /\ Returned(g).err = NilErr => call[g].wire.data # JNull
           /\ Returned(g).err # NilErr => call[g].wire.msg # <<>>

\* C9, amended: of a decoded envelope, the status alone decides: "ok" returns
\* the envelope and a nil error, whatever data is; any other status returns
\* nil and the remote error, whatever msg is.
C9_StatusDecides ==
    \A g \in Threads :
        (/\ Done(g)
         /\ call[g].op \in {"DoGetResponse", "DoPost"}
         /\ call[g].wire.t = "object")
        => IF call[g].wire.status = "ok"
           THEN /\ Returned(g).err = NilErr
                /\ ~Returned(g).resp.nil
                /\ Returned(g).resp.v.Status = "ok"
           ELSE /\ Returned(g).err.kind = "remote"
                /\ Returned(g).resp = NilResp

C9_Witness ==
    \E g \in Threads :
        /\ Done(g)
        /\ call[g].op = "DoGetResponse"
        /\ call[g].wire.t = "object"
        /\ call[g].wire.status = "ok"
        /\ call[g].wire.data = JNull
        /\ Returned(g).err = NilErr
        /\ Returned(g).resp.v.Data = GoNil

\* C10: a call writes nothing the caller or a concurrent call can observe:
\* the entity a helper was passed stays as it was passed, and two calls in
\* progress on the same entity build the same id.
C10_NoSharedWrite ==
    /\ \A g \in Threads :
          call[g].op \in ModifyOps => heap[call[g].kind] = call[g].arg
    /\ \A g, h \in Threads :
          (/\ call[g].op \in {"modifyPermission", "modifyRole"}
           /\ call[g].op = call[h].op
           /\ ~Done(g) /\ ~Done(h))
          => call[g].query.id = call[h].query.id

====
